---- MODULE Spec2Model ----
(***************************************************************************)
(* mumule: a thread pool driven by three atomic counters (queued,          *)
(* processing, processed), a mutex and two condition variables.            *)
(*                                                                         *)
(* The model follows the implementation with mule_start / mule_sync /      *)
(* mule_stop (timed waits on both condition variables).  Every atomic      *)
(* operation, mutex operation and condition-variable operation of the      *)
(* source is one step; purely thread-local statements are folded into the  *)
(* step that precedes them.  The locals queued and processing of           *)
(* mule_thread are kept only while they are live (from their load to their *)
(* last use in the iteration) and are 0 otherwise.                          *)
(*                                                                         *)
(* mule_thread declares `workitem` and assigns `workitem_idx`; the two     *)
(* names are read as the one local variable holding processing + 1, as in  *)
(* the variant of the same function that uses `workitem` throughout.       *)
(***************************************************************************)
EXTENDS Integers, Sequences, FiniteSets

\* ------------------------------------------------------------ bounds

\* enum: mumule_max_threads = 8, the length of the threads array of mu_mule
mumule_max_threads == 8

\* enum: the worker's revalidation interval, 10 milliseconds in nanoseconds
mumule_revalidate_work_available_ns == 10000000

\* enum: the dispatcher's revalidation interval, 1 millisecond in nanoseconds
mumule_revalidate_queue_complete_ns == 1000000

\* the nanoseconds of one second, the literal of _timespec_add
NsecPerSec == 1000000000

\* largest num_threads whose worker threads are followed step by step
MaxThreads == 2

\* largest count passed to one mule_submit call
MaxCount == 2

\* number of concurrent producer threads calling mule_submit
NumProducers == 2

\* how far past the largest value of queued the processing counter (size_t in
\* the source) is followed
MaxOverrun == 1

\* the largest index followed in any program
MaxIdx == NumProducers * MaxCount + MaxOverrun

Workers == 0 .. (MaxThreads - 1)
Producers == 1 .. NumProducers
Indices == 1 .. MaxIdx

\* ------------------------------------------------------------ caller programs

Op(name, k) == [op |-> name, n |-> k]

\* caller programs: the sequences of API calls made by the owner of the pool
Programs ==
         { << Op("start", 0), Op("submit", a), Op("submit", b), Op("sync", 0) >> :
               a \in 1 .. MaxCount, b \in 1 .. MaxCount }
    \cup { << Op("submit", a), Op("start", 0), Op("sync", 0), Op("stop", 0),
              Op("destroy", 0) >> : a \in 0 .. MaxCount }
    \cup { << Op("sync", 0), Op("submit", a), Op("start", 0), Op("stop", 0) >> :
               a \in 1 .. MaxCount }
    \cup { << Op("start", 0), Op("submit", a), Op("sync", 0), Op("reset", 0),
              Op("submit", b), Op("sync", 0) >> :
               a \in 0 .. MaxCount, b \in 0 .. MaxCount }
    \cup { << Op("start", 0), Op("fork", k), Op("join", 0), Op("sync", 0) >> :
               k \in 1 .. MaxCount }
    \cup { << Op("submit", a), Op("start", 0), Op("start", 0), Op("sync", 0),
              Op("stop", 0), Op("stop", 0) >> : a \in 0 .. MaxCount }
    \cup { << Op("submit", a), Op("start", 0), Op("stop", 0), Op("submit", b),
              Op("start", 0), Op("submit", c), Op("sync", 0) >> :
               a \in 0 .. 1, b \in 0 .. 1, c \in 0 .. 1 }
    \cup { << Op("start", 0), Op("submit", a), Op("reset", 0), Op("stop", 0) >> :
               a \in 1 .. MaxCount }
    \cup { << Op("submit", a), Op("start", 0), Op("destroy", 0),
              Op("destroy", 0) >> : a \in 0 .. 1 }

\* what a call adds to queued
Adds(o) == IF o.op = "submit" THEN o.n
           ELSE IF o.op = "fork" THEN NumProducers * o.n ELSE 0

\* the largest value queued takes in program p from call i on, when it is
\* cur before call i (mule_reset stores 0)
RECURSIVE MaxQueuedFrom(_, _, _)
MaxQueuedFrom(p, i, cur) ==
    IF i > Len(p) THEN cur
    ELSE LET nxt == IF p[i].op = "reset" THEN 0 ELSE cur + Adds(p[i])
             rest == MaxQueuedFrom(p, i + 1, nxt)
         IN  IF cur > rest THEN cur ELSE rest

\* cap on the processing counter in program p
ProcessingCap(p) == MaxQueuedFrom(p, 1, 0) + MaxOverrun

\* the length of the longest program
MaxCalls == 7

\* largest tv_sec a clock reading has
MaxSec == 2

\* ------------------------------------------------------------ state

VARIABLES
    queued, processing, processed,   \* struct mu_mule: the three counters
    running, threads_running,        \* struct mu_mule
    num_threads,                     \* struct mu_mule
    mutex,                           \* "free", "dispatcher" or "worker"
    destroyed,                       \* number of mule_destroy teardowns done
    wpc,                             \* position of each worker thread
    wq, wp,                          \* mule_thread locals: queued, processing
    prog, ip, opc,                   \* the owner: program, call index, position
    dq, dpd,                         \* mule_sync locals: queued, processed
    ppc, pcount,                     \* producer threads and their submit count
    calls,                           \* kernel invocations per index since the
                                     \*   last reset began storing
    epoch,                           \* number of resets that began storing
    rets,                            \* <<return value, count>> of each
                                     \*   mule_submit since the last reset
    dEntryQuenched, dWaited,         \* mule_sync call in progress: processed =
                                     \*   queued at entry; waited at least once
    stopMark,                        \* << processing, queued >> when mule_stop
                                     \*   last cleared running, << >> before
    created, joined,                 \* per thread descriptor: thrd_create and
                                     \*   thrd_join calls made on it so far
    descrTop,                        \* descriptors written by the last
                                     \*   mule_start (threads[0 .. descrTop-1])
    wakesLost,                       \* every cnd_signal / cnd_broadcast of the
                                     \*   run arrives while no thread waits
    abstime,                         \* struct timespec read by clock_gettime
    reltime,                         \* the interval last added to abstime
    deadline,                        \* the struct timespec _timespec_add gave
    tpc                              \* "idle", "read" or "armed"

vars == << queued, processing, processed, running, threads_running,
           num_threads, mutex, destroyed, wpc, wq, wp, prog, ip, opc, dq, dpd,
           ppc, pcount, calls, epoch, rets, dEntryQuenched, dWaited,
           stopMark, created, joined, descrTop, wakesLost, abstime, reltime,
           deadline, tpc >>

pool == << queued, processing, processed, running, threads_running,
           num_threads, mutex, destroyed >>
counters == << queued, processing, processed >>
wlocals == << wq, wp >>
owner == << prog, ip, opc, dq, dpd, dEntryQuenched, dWaited >>
producers == << ppc, pcount >>
handles == << created, joined, descrTop >>
timing == << abstime, reltime, deadline, tpc >>
ghost == << calls, epoch, rets, stopMark, wakesLost, handles, timing >>

\* ------------------------------------------------------------ mule_init

\* mule_init: memset to zero, num_threads set, primitives constructed
mule_init(n) ==
    /\ queued = 0 /\ processing = 0 /\ processed = 0
    /\ running = FALSE /\ threads_running = 0
    /\ num_threads = n
    /\ mutex = "free"
    /\ destroyed = 0
    /\ wpc = [w \in Workers |-> "none"]
    /\ wq = [w \in Workers |-> 0]
    /\ wp = [w \in Workers |-> 0]

\* the state after mule_init(n), for the owner about to run program p
InitPool(p, n) ==
    /\ mule_init(n)
    /\ created = [w \in Workers |-> 0]
    /\ joined = [w \in Workers |-> 0]
    /\ descrTop = 0
    /\ prog = p
    /\ ip = 1 /\ opc = "call"
    /\ dq = 0 /\ dpd = 0
    /\ ppc = [pr \in Producers |-> "idle"]
    /\ pcount = 0
    /\ calls = [i \in Indices |-> 0]
    /\ epoch = 0
    /\ rets = << >>
    /\ stopMark = << >>
    /\ dEntryQuenched = FALSE /\ dWaited = FALSE

InitWith(p) == \E n \in 1 .. MaxThreads : InitPool(p, n)

\* struct timespec abstime = { 0 }
timespec_zero == [tv_sec |-> 0, tv_nsec |-> 0]

\* the clock is left out of the runs that follow the pool
TimingIdle ==
    /\ abstime = timespec_zero /\ deadline = timespec_zero
    /\ reltime = 0 /\ tpc = "idle"

\* mule_init stores whatever num_threads it is given
Init ==
    /\ \E p \in Programs :
          \/ InitWith(p)
          \/ InitPool(p, mumule_max_threads + 1)
    /\ wakesLost = FALSE
    /\ TimingIdle

\* ------------------------------------------------------------ condition variables

\* mutant of cnd_broadcast_worker: cnd_signal, which wakes one waiting worker
cnd_signal_worker(pcs) ==
    [w \in Workers |->
        IF /\ pcs[w] = "waiting" /\ ~wakesLost
           /\ \A v \in Workers : v < w => pcs[v] # "waiting"
        THEN "woken" ELSE pcs[w]]

\* cnd_broadcast(&mule->wake_worker): every worker inside cnd_timedwait wakes
cnd_broadcast_worker(pcs) ==
    [w \in Workers |->
        IF pcs[w] = "waiting" /\ ~wakesLost THEN "woken" ELSE pcs[w]]

\* cnd_signal(&mule->wake_dispatcher): the dispatcher wakes if it is waiting
cnd_signal_dispatcher(pos) ==
    IF pos = "sync_waiting" /\ ~wakesLost THEN "sync_woken" ELSE pos

\* mutant of WorkerWaitTimed: cnd_wait, which only a wake ends
WorkerWaitUntimed == FALSE

\* the worker waits with cnd_timedwait (10 ms): the wait can end by timeout
WorkerWaitTimed == TRUE

\* the dispatcher waits with cnd_timedwait (1 ms): the wait can end by timeout
DispatcherWaitTimed == TRUE

\* ------------------------------------------------------------ mule_thread

\* mutant of queue_empty: the worker parks while one index is unclaimed
queue_empty_early(p, q) == p = q \/ p + 1 = q

\* `if (processing == queued)`: the worker finds no work to claim
queue_empty(p, q) == p = q

\* mutant of cas_matches: a store that does not compare
cas_ignores_expected(current, expected) == TRUE

\* atomic_compare_exchange_weak(&mule->processing, &processing, workitem)
\* can succeed when the counter still holds the value the worker loaded
cas_matches(current, expected) == current = expected

\* mutant of workitem_idx: the claimed index skips one
workitem_idx_skips(p) == p + 2

\* workitem_idx = processing + 1
workitem_idx(p) == p + 1

\* mutant of signal_due: the value fetch-add returns taken as the new one
signal_due_old(old_processed, q) == old_processed = q

\* `if (processed + 1 == queued)` with the worker's own copy of queued
signal_due(old_processed, q) == old_processed + 1 = q

\* thread entry: atomic_fetch_add(&mule->threads_running, 1)
WorkerStart(w) ==
    /\ wpc[w] = "start"
    /\ threads_running' = threads_running + 1
    /\ wpc' = [wpc EXCEPT ![w] = "loadq"]
    /\ UNCHANGED << counters, running, num_threads, mutex, destroyed,
                    wlocals, owner, producers, ghost >>

\* queued = atomic_load(&mule->queued)
WorkerLoadQueued(w) ==
    /\ wpc[w] = "loadq"
    /\ wq' = [wq EXCEPT ![w] = queued]
    /\ wpc' = [wpc EXCEPT ![w] = "loadp"]
    /\ UNCHANGED << pool, wp, owner, producers, ghost >>

\* processing = atomic_load(&mule->processing); if (processing == queued)
WorkerLoadProcessing(w) ==
    /\ wpc[w] = "loadp"
    /\ IF queue_empty(processing, wq[w])
       THEN /\ wpc' = [wpc EXCEPT ![w] = "lock"]
            /\ wq' = [wq EXCEPT ![w] = 0]
            /\ wp' = [wp EXCEPT ![w] = 0]
       ELSE /\ wpc' = [wpc EXCEPT ![w] = "cas"]
            /\ wp' = [wp EXCEPT ![w] = processing]
            /\ wq' = wq
    /\ UNCHANGED << pool, owner, producers, ghost >>

\* mtx_lock(&mule->mutex) in the queue-empty branch
WorkerLock(w) ==
    /\ wpc[w] = "lock"
    /\ mutex = "free"
    /\ mutex' = "worker"
    /\ wpc' = [wpc EXCEPT ![w] = "locked"]
    /\ UNCHANGED << counters, running, threads_running, num_threads,
                    destroyed, wlocals, owner, producers, ghost >>

\* mutant of mtx_unlock_on_exit: the worker breaks out of its loop with the
\* mutex still locked
mtx_unlock_on_exit_missing == "worker"

\* mtx_unlock(&mule->mutex) before the `break` of the stopped worker
mtx_unlock_on_exit == "free"

\* if (!running) { mtx_unlock; break; }
WorkerSeesStopped(w) ==
    /\ wpc[w] = "locked"
    /\ ~running
    /\ mutex' = mtx_unlock_on_exit
    /\ wpc' = [wpc EXCEPT ![w] = "exit"]
    /\ UNCHANGED << counters, running, threads_running, num_threads,
                    destroyed, wlocals, owner, producers, ghost >>

\* cnd_timedwait(&mule->wake_worker, &mule->mutex, &abstime): releases the
\* mutex and waits
WorkerWait(w) ==
    /\ wpc[w] = "locked"
    /\ running
    /\ mutex' = "free"
    /\ wpc' = [wpc EXCEPT ![w] = "waiting"]
    /\ UNCHANGED << counters, running, threads_running, num_threads,
                    destroyed, wlocals, owner, producers, ghost >>

\* the revalidation timeout of the worker's cnd_timedwait expires
WorkerTimeout(w) ==
    /\ wpc[w] = "waiting"
    /\ WorkerWaitTimed
    /\ wpc' = [wpc EXCEPT ![w] = "woken"]
    /\ UNCHANGED << pool, wlocals, owner, producers, ghost >>

\* cnd_timedwait returns with the mutex re-acquired; mtx_unlock; continue
WorkerWoke(w) ==
    /\ wpc[w] = "woken"
    /\ mutex = "free"
    /\ wpc' = [wpc EXCEPT ![w] = "loadq"]
    /\ UNCHANGED << pool, wlocals, owner, producers, ghost >>

\* mutant of after_failed_cas: the `continue` is missing and the worker goes
\* on to the kernel call
after_failed_cas_falls_through == "exec"

\* `if (!atomic_compare_exchange_weak(...)) continue;`: where the worker goes
\* on after a failed compare-and-swap, the top of the loop
after_failed_cas == "loadq"

\* the compare-and-swap fails because another thread changed processing:
\* continue
WorkerCasLost(w) ==
    /\ wpc[w] = "cas"
    /\ ~cas_matches(processing, wp[w])
    /\ wpc' = [wpc EXCEPT ![w] = after_failed_cas]
    /\ wq' = [wq EXCEPT ![w] = 0]
    /\ wp' = [wp EXCEPT ![w] = 0]
    /\ UNCHANGED << pool, owner, producers, ghost >>

\* the weak compare-and-swap fails spuriously: continue
WorkerCasSpurious(w) ==
    /\ wpc[w] = "cas"
    /\ cas_matches(processing, wp[w])
    /\ wpc' = [wpc EXCEPT ![w] = after_failed_cas]
    /\ wq' = [wq EXCEPT ![w] = 0]
    /\ wp' = [wp EXCEPT ![w] = 0]
    /\ UNCHANGED << pool, owner, producers, ghost >>

\* the compare-and-swap succeeds: processing becomes workitem_idx
WorkerCasSuccess(w) ==
    /\ wpc[w] = "cas"
    /\ cas_matches(processing, wp[w])
    /\ processing < ProcessingCap(prog)
    /\ processing' = workitem_idx(wp[w])
    /\ wpc' = [wpc EXCEPT ![w] = "exec"]
    /\ UNCHANGED << queued, processed, running, threads_running, num_threads,
                    mutex, destroyed, wlocals, owner, producers, ghost >>

\* (mule->kernel)(userdata, thread_idx, workitem_idx) runs and returns
WorkerKernel(w) ==
    /\ wpc[w] = "exec"
    /\ calls' = [calls EXCEPT ![workitem_idx(wp[w])] = @ + 1]
    /\ wpc' = [wpc EXCEPT ![w] = "count"]
    /\ UNCHANGED << pool, wlocals, owner, producers, epoch, rets, stopMark,
                    wakesLost, timing, handles >>

\* mutant of processed_after_add: the completion is counted twice
processed_counted_twice(pd) == pd + 2

\* the value of the counter after atomic_fetch_add(&mule->processed, 1)
processed_after_add(pd) == pd + 1

\* processed = atomic_fetch_add(&mule->processed, 1);
\* if (processed + 1 == queued) the worker goes on to signal
WorkerCount(w) ==
    /\ wpc[w] = "count"
    /\ processed' = processed_after_add(processed)
    /\ wpc' = [wpc EXCEPT ![w] =
                 IF signal_due(processed, wq[w]) THEN "signal" ELSE "loadq"]
    /\ wq' = [wq EXCEPT ![w] = 0]
    /\ wp' = [wp EXCEPT ![w] = 0]
    /\ UNCHANGED << queued, processing, running, threads_running, num_threads,
                    mutex, destroyed, owner, producers, ghost >>

\* cnd_signal(&mule->wake_dispatcher)
WorkerSignal(w) ==
    /\ wpc[w] = "signal"
    /\ opc' = cnd_signal_dispatcher(opc)
    /\ wpc' = [wpc EXCEPT ![w] = "loadq"]
    /\ UNCHANGED << pool, wlocals, prog, ip, dq, dpd, dEntryQuenched, dWaited,
                    producers, ghost >>

\* mutant of threads_running_at_exit: the count is left as it is
threads_running_kept(t) == t

\* atomic_fetch_add(&mule->threads_running, -1)
threads_running_at_exit(t) == t - 1

\* after the loop: the worker leaves threads_running and returns 0
WorkerExit(w) ==
    /\ wpc[w] = "exit"
    /\ threads_running' = threads_running_at_exit(threads_running)
    /\ wpc' = [wpc EXCEPT ![w] = "exited"]
    /\ UNCHANGED << counters, running, num_threads, mutex, destroyed,
                    wlocals, owner, producers, ghost >>

\* ------------------------------------------------------------ the owner's calls

CurOp == IF ip <= Len(prog) THEN prog[ip].op ELSE "end"
CurN == IF ip <= Len(prog) THEN prog[ip].n ELSE 0

\* mutant of submit_ret: the value of queued before the addition
submit_ret_old(idx, count) == idx

\* the value mule_submit returns: idx + count
submit_ret(idx, count) == idx + count

\* mule_submit: idx = atomic_fetch_add(&mule->queued, count)
SubmitFetchAdd ==
    /\ opc = "call" /\ CurOp = "submit"
    /\ queued' = queued + CurN
    /\ rets' = Append(rets, << submit_ret(queued, CurN), CurN >>)
    /\ opc' = "submit_bc"
    /\ UNCHANGED << processing, processed, running, threads_running,
                    num_threads, mutex, destroyed, wpc, wlocals, prog, ip, dq,
                    dpd, dEntryQuenched, dWaited, producers, calls, epoch,
                    stopMark, wakesLost, timing, handles >>

\* mule_submit: cnd_broadcast(&mule->wake_worker); return idx + count
SubmitBroadcast ==
    /\ opc = "submit_bc"
    /\ wpc' = cnd_broadcast_worker(wpc)
    /\ opc' = "call" /\ ip' = ip + 1
    /\ UNCHANGED << pool, wlocals, prog, dq, dpd, dEntryQuenched, dWaited,
                    producers, ghost >>

\* mutant of start_is_noop: mule_start never returns early
start_never_noop(r) == FALSE

\* `if (atomic_load(&mule->running))` in mule_start: nothing to start
start_is_noop(r) == r

\* mule_start: mtx_lock; if (running) { mtx_unlock; return 0; }
StartLock ==
    /\ opc = "call" /\ CurOp = "start"
    /\ mutex = "free"
    /\ IF start_is_noop(running)
       THEN /\ opc' = "call" /\ ip' = ip + 1
            /\ mutex' = mutex
       ELSE /\ opc' = "start_locked" /\ ip' = ip
            /\ mutex' = "dispatcher"
    /\ UNCHANGED << counters, running, threads_running, num_threads,
                    destroyed, wpc, wlocals, prog, dq, dpd, dEntryQuenched,
                    dWaited, producers, ghost >>

\* mule_start: descriptors filled, running = 1, one thrd_create per
\* descriptor below num_threads, mtx_unlock
StartThreads ==
    /\ opc = "start_locked"
    /\ num_threads <= mumule_max_threads
    /\ descrTop' = num_threads
    /\ running' = TRUE
    /\ wpc' = [w \in Workers |-> IF w < num_threads THEN "start" ELSE wpc[w]]
    /\ created' = [w \in Workers |->
                     IF w < num_threads THEN created[w] + 1 ELSE created[w]]
    /\ mutex' = "free"
    /\ opc' = "call" /\ ip' = ip + 1
    /\ UNCHANGED << counters, threads_running, num_threads, destroyed,
                    wlocals, prog, dq, dpd, dEntryQuenched, dWaited,
                    producers, calls, epoch, rets, stopMark, joined,
                    wakesLost, timing >>

\* mule_start with num_threads above mumule_max_threads: the descriptor loop
\* writes threads[mumule_max_threads], past the end of the array and onto the
\* members that follow it.  The behaviour is undefined from there on and is
\* not followed further.
StartOverflow ==
    /\ opc = "start_locked"
    /\ num_threads > mumule_max_threads
    /\ descrTop' = num_threads
    /\ opc' = "undefined"
    /\ UNCHANGED << pool, wpc, wlocals, prog, ip, dq, dpd, dEntryQuenched,
                    dWaited, producers, calls, epoch, rets, stopMark, created,
                    joined, wakesLost, timing >>

\* mutant of sync_must_wait: the dispatcher stops waiting one item early
sync_must_wait_short(pd, q) == pd + 1 < q

\* `if (processed < queued)` in mule_sync: the dispatcher has to wait
sync_must_wait(pd, q) == pd < q

\* mule_sync: cnd_broadcast(&mule->wake_worker)
SyncBroadcast ==
    /\ opc = "call" /\ CurOp \in {"sync", "reset"}
    /\ wpc' = cnd_broadcast_worker(wpc)
    /\ opc' = "sync_lock"
    /\ dEntryQuenched' = (processed = queued)
    /\ dWaited' = FALSE
    /\ UNCHANGED << pool, wlocals, prog, ip, dq, dpd, producers, ghost >>

\* mule_sync: mtx_lock(&mule->mutex)
SyncLock ==
    /\ opc = "sync_lock"
    /\ mutex = "free"
    /\ mutex' = "dispatcher"
    /\ opc' = "sync_loadq"
    /\ UNCHANGED << counters, running, threads_running, num_threads,
                    destroyed, wpc, wlocals, prog, ip, dq, dpd,
                    dEntryQuenched, dWaited, producers, ghost >>

\* mule_sync: queued = atomic_load(&mule->queued)
SyncLoadQueued ==
    /\ opc = "sync_loadq"
    /\ dq' = queued
    /\ opc' = "sync_loadp"
    /\ UNCHANGED << pool, wpc, wlocals, prog, ip, dpd, dEntryQuenched,
                    dWaited, producers, ghost >>

\* mule_sync: processed = atomic_load(&mule->processed);
\* if (processed < queued) cnd_timedwait(&mule->wake_dispatcher, ...)
\* else { break; } mtx_unlock; return 0
SyncLoadProcessed ==
    /\ opc = "sync_loadp"
    /\ dpd' = processed
    /\ mutex' = "free"
    /\ IF sync_must_wait(processed, dq)
       THEN /\ opc' = "sync_waiting" /\ ip' = ip
            /\ dWaited' = TRUE
       ELSE /\ IF CurOp = "reset"
               THEN opc' = "reset_queued" /\ ip' = ip
               ELSE opc' = "call" /\ ip' = ip + 1
            /\ dWaited' = dWaited
    /\ UNCHANGED << counters, running, threads_running, num_threads,
                    destroyed, wpc, wlocals, prog, dq, dEntryQuenched,
                    producers, ghost >>

\* the revalidation timeout of the dispatcher's cnd_timedwait expires
SyncTimeout ==
    /\ opc = "sync_waiting"
    /\ DispatcherWaitTimed
    /\ opc' = "sync_woken"
    /\ UNCHANGED << pool, wpc, wlocals, prog, ip, dq, dpd, dEntryQuenched,
                    dWaited, producers, ghost >>

\* cnd_timedwait returns with the mutex re-acquired; next loop iteration
SyncWoke ==
    /\ opc = "sync_woken"
    /\ mutex = "free"
    /\ mutex' = "dispatcher"
    /\ opc' = "sync_loadq"
    /\ UNCHANGED << counters, running, threads_running, num_threads,
                    destroyed, wpc, wlocals, prog, ip, dq, dpd,
                    dEntryQuenched, dWaited, producers, ghost >>

\* mule_reset, after mule_sync: atomic_store(&mule->queued, 0)
ResetQueued ==
    /\ opc = "reset_queued"
    /\ queued' = 0
    /\ opc' = "reset_processing"
    /\ epoch' = epoch + 1
    /\ calls' = [i \in Indices |-> 0]
    /\ rets' = << >>
    /\ UNCHANGED << processing, processed, running, threads_running,
                    num_threads, mutex, destroyed, wpc, wlocals, prog, ip, dq,
                    dpd, dEntryQuenched, dWaited, producers, stopMark,
                    wakesLost, timing, handles >>

\* mule_reset: atomic_store(&mule->processing, 0)
ResetProcessing ==
    /\ opc = "reset_processing"
    /\ processing' = 0
    /\ opc' = "reset_processed"
    /\ UNCHANGED << queued, processed, running, threads_running, num_threads,
                    mutex, destroyed, wpc, wlocals, prog, ip, dq, dpd,
                    dEntryQuenched, dWaited, producers, ghost >>

\* mule_reset: atomic_store(&mule->processed, 0)
ResetProcessed ==
    /\ opc = "reset_processed"
    /\ processed' = 0
    /\ opc' = "reset_bc"
    /\ UNCHANGED << queued, processing, running, threads_running, num_threads,
                    mutex, destroyed, wpc, wlocals, prog, ip, dq, dpd,
                    dEntryQuenched, dWaited, producers, ghost >>

\* mule_reset: cnd_broadcast(&mule->wake_worker); return 0
ResetBroadcast ==
    /\ opc = "reset_bc"
    /\ wpc' = cnd_broadcast_worker(wpc)
    /\ opc' = "call" /\ ip' = ip + 1
    /\ UNCHANGED << pool, wlocals, prog, dq, dpd, dEntryQuenched, dWaited,
                    producers, ghost >>

\* mutant of stop_is_noop: mule_stop never returns early
stop_never_noop(r) == FALSE

\* `if (!atomic_load(&mule->running))` in mule_stop: nothing to stop
stop_is_noop(r) == ~r

\* mule_stop: mtx_lock; if (!running) { mtx_unlock; return 0; }
\* (mule_destroy begins with mule_stop)
StopLock ==
    /\ opc = "call" /\ CurOp \in {"stop", "destroy"}
    /\ mutex = "free"
    /\ IF stop_is_noop(running)
       THEN /\ IF CurOp = "destroy"
               THEN opc' = "destroy_free" /\ ip' = ip
               ELSE opc' = "call" /\ ip' = ip + 1
            /\ mutex' = mutex
       ELSE /\ opc' = "stop_locked" /\ ip' = ip
            /\ mutex' = "dispatcher"
    /\ UNCHANGED << counters, running, threads_running, num_threads,
                    destroyed, wpc, wlocals, prog, dq, dpd, dEntryQuenched,
                    dWaited, producers, ghost >>

\* mule_stop: atomic_store(&mule->running, 0); mtx_unlock
StopClearRunning ==
    /\ opc = "stop_locked"
    /\ running' = FALSE
    /\ mutex' = "free"
    /\ opc' = "stop_bc"
    /\ stopMark' = << processing, queued >>
    /\ UNCHANGED << counters, threads_running, num_threads, destroyed, wpc,
                    wlocals, prog, ip, dq, dpd, dEntryQuenched, dWaited,
                    producers, calls, epoch, rets, wakesLost, timing, handles >>

\* mule_stop: cnd_broadcast(&mule->wake_worker)
StopBroadcast ==
    /\ opc = "stop_bc"
    /\ wpc' = cnd_broadcast_worker(wpc)
    /\ opc' = "stop_join"
    /\ UNCHANGED << pool, wlocals, prog, ip, dq, dpd, dEntryQuenched, dWaited,
                    producers, ghost >>

\* mule_stop: thrd_join of every worker below num_threads; return 0.
\* thrd_join returns once the thread has returned from mule_thread; on a
\* handle with no thread left to join (undefined) it is followed as
\* returning at once.
StopJoin ==
    /\ opc = "stop_join"
    /\ \A w \in Workers : w < num_threads => wpc[w] \in {"exited", "none"}
    /\ wpc' = [w \in Workers |-> "none"]
    /\ joined' = [w \in Workers |->
                    IF w < num_threads THEN joined[w] + 1 ELSE joined[w]]
    /\ IF CurOp = "destroy"
       THEN opc' = "destroy_free" /\ ip' = ip
       ELSE opc' = "call" /\ ip' = ip + 1
    /\ UNCHANGED << pool, wlocals, prog, dq, dpd, dEntryQuenched, dWaited,
                    producers, calls, epoch, rets, stopMark, created,
                    descrTop, wakesLost, timing >>

\* mule_destroy: mtx_destroy, cnd_destroy, cnd_destroy; return 0
DestroyFree ==
    /\ opc = "destroy_free"
    /\ destroyed' = destroyed + 1
    /\ opc' = "call" /\ ip' = ip + 1
    /\ UNCHANGED << counters, running, threads_running, num_threads, mutex,
                    wpc, wlocals, prog, dq, dpd, dEntryQuenched, dWaited,
                    producers, ghost >>

\* a call on a pool whose mutex and condition variables mule_destroy has
\* already destroyed uses a destroyed primitive: undefined.  The call may
\* also go on as if the primitives were intact (the steps above); this step
\* is every other outcome, which is not followed further.
UseAfterDestroy ==
    /\ opc = "call" /\ CurOp # "end"
    /\ destroyed > 0
    /\ opc' = "undefined"
    /\ UNCHANGED << pool, wpc, wlocals, prog, ip, dq, dpd, dEntryQuenched,
                    dWaited, producers, ghost >>

\* ------------------------------------------------------------ producer threads

\* the owner starts NumProducers threads that each call mule_submit(k) once
Fork ==
    /\ opc = "call" /\ CurOp = "fork"
    /\ pcount' = CurN
    /\ ppc' = [p \in Producers |-> "submit"]
    /\ ip' = ip + 1
    /\ UNCHANGED << pool, wpc, wlocals, prog, opc, dq, dpd, dEntryQuenched,
                    dWaited, ghost >>

\* the owner waits until every producer has returned from mule_submit
Join ==
    /\ opc = "call" /\ CurOp = "join"
    /\ \A p \in Producers : ppc[p] = "done"
    /\ ip' = ip + 1
    /\ UNCHANGED << pool, wpc, wlocals, prog, opc, dq, dpd, dEntryQuenched,
                    dWaited, producers, ghost >>

\* a producer's mule_submit: idx = atomic_fetch_add(&mule->queued, count)
ProducerFetchAdd(p) ==
    /\ ppc[p] = "submit"
    /\ queued' = queued + pcount
    /\ rets' = Append(rets, << submit_ret(queued, pcount), pcount >>)
    /\ ppc' = [ppc EXCEPT ![p] = "submit_bc"]
    /\ UNCHANGED << processing, processed, running, threads_running,
                    num_threads, mutex, destroyed, wpc, wlocals, owner,
                    pcount, calls, epoch, stopMark, wakesLost, timing, handles >>

\* a producer's mule_submit: cnd_broadcast(&mule->wake_worker); return
ProducerBroadcast(p) ==
    /\ ppc[p] = "submit_bc"
    /\ wpc' = cnd_broadcast_worker(wpc)
    /\ ppc' = [ppc EXCEPT ![p] = "done"]
    /\ UNCHANGED << pool, wlocals, owner, pcount, ghost >>

\* ------------------------------------------------------------ specification

\* the steps of worker w other than a spurious compare-and-swap failure
WorkerProgress(w) ==
    \/ WorkerStart(w)
    \/ WorkerLoadQueued(w)
    \/ WorkerLoadProcessing(w)
    \/ WorkerLock(w)
    \/ WorkerSeesStopped(w)
    \/ WorkerWait(w)
    \/ WorkerTimeout(w)
    \/ WorkerWoke(w)
    \/ WorkerCasLost(w)
    \/ WorkerCasSuccess(w)
    \/ WorkerKernel(w)
    \/ WorkerCount(w)
    \/ WorkerSignal(w)
    \/ WorkerExit(w)

WorkerStep(w) ==
    \/ WorkerProgress(w)
    \/ WorkerCasSpurious(w)

OwnerStep ==
    \/ SubmitFetchAdd
    \/ SubmitBroadcast
    \/ StartLock
    \/ StartThreads
    \/ SyncBroadcast
    \/ SyncLock
    \/ SyncLoadQueued
    \/ SyncLoadProcessed
    \/ SyncTimeout
    \/ SyncWoke
    \/ ResetQueued
    \/ ResetProcessing
    \/ ResetProcessed
    \/ ResetBroadcast
    \/ StopLock
    \/ StopClearRunning
    \/ StopBroadcast
    \/ StopJoin
    \/ DestroyFree
    \/ StartOverflow
    \/ UseAfterDestroy
    \/ Fork
    \/ Join

ProducerStep(p) ==
    \/ ProducerFetchAdd(p)
    \/ ProducerBroadcast(p)

Next ==
    \/ OwnerStep
    \/ \E w \in Workers : WorkerStep(w)
    \/ \E p \in Producers : ProducerStep(p)

Spec == Init /\ [][Next]_vars

\* ------------------------------------------------------------ fair scheduling

\* programs for the runs checked under fair scheduling
LivePrograms ==
    { << Op("start", 0), Op("submit", 1), Op("submit", 1), Op("sync", 0) >>,
      << Op("submit", MaxCount), Op("start", 0), Op("sync", 0),
         Op("stop", 0) >> }

LiveInit ==
    /\ \E p \in LivePrograms : InitWith(p)
    /\ wakesLost \in BOOLEAN
    /\ TimingIdle

\* the owner's steps in these programs
OwnerLiveStep ==
    \/ SubmitFetchAdd
    \/ SubmitBroadcast
    \/ StartLock
    \/ StartThreads
    \/ SyncBroadcast
    \/ SyncLock
    \/ SyncLoadQueued
    \/ SyncLoadProcessed
    \/ SyncTimeout
    \/ SyncWoke
    \/ StopLock
    \/ StopClearRunning
    \/ StopBroadcast
    \/ StopJoin

LiveNext ==
    \/ OwnerLiveStep
    \/ \E w \in Workers : WorkerStep(w)

\* every thread that can take a step infinitely often takes one: a thread
\* blocked in mtx_lock gets the mutex if it is free again and again, timers
\* expire, runnable threads are scheduled, and a weak compare-and-swap that
\* could succeed again and again does not fail spuriously forever
Fairness ==
    /\ SF_vars(OwnerLiveStep)
    /\ \A w \in Workers :
          /\ SF_vars(WorkerProgress(w))
          /\ SF_vars(WorkerCasSuccess(w))

LiveSpec == LiveInit /\ [][LiveNext]_vars /\ Fairness

\* ------------------------------------------------------------ stopping without
\* ------------------------------------------------------------ worker timeouts

\* programs that end in mule_stop
StopPrograms ==
         { << Op("submit", a), Op("start", 0), Op("stop", 0) >> :
               a \in 0 .. MaxCount }
    \cup { << Op("submit", a), Op("start", 0), Op("sync", 0), Op("stop", 0) >> :
               a \in 1 .. MaxCount }

\* every wake reaches the threads that are waiting when it is sent
StopInit ==
    /\ \E p \in StopPrograms : InitWith(p)
    /\ wakesLost = FALSE
    /\ TimingIdle

\* the steps of worker w when its wait on wake_worker never times out
WorkerUntimedProgress(w) ==
    \/ WorkerStart(w)
    \/ WorkerLoadQueued(w)
    \/ WorkerLoadProcessing(w)
    \/ WorkerLock(w)
    \/ WorkerSeesStopped(w)
    \/ WorkerWait(w)
    \/ WorkerWoke(w)
    \/ WorkerCasLost(w)
    \/ WorkerCasSuccess(w)
    \/ WorkerKernel(w)
    \/ WorkerCount(w)
    \/ WorkerSignal(w)
    \/ WorkerExit(w)

WorkerUntimedStep(w) ==
    \/ WorkerUntimedProgress(w)
    \/ WorkerCasSpurious(w)

StopNext ==
    \/ OwnerLiveStep
    \/ \E w \in Workers : WorkerUntimedStep(w)

\* fair scheduling of the owner and of the workers, as in Fairness
StopFairness ==
    /\ SF_vars(OwnerLiveStep)
    /\ \A w \in Workers :
          /\ SF_vars(WorkerUntimedProgress(w))
          /\ SF_vars(WorkerCasSuccess(w))

StopSpec == StopInit /\ [][StopNext]_vars /\ StopFairness

\* ------------------------------------------------------------ deadlines

\* llong division and remainder of C: the quotient is truncated towards zero
\* and the remainder has the sign of the dividend
c_div(a, b) == IF a >= 0 THEN a \div b ELSE -((-a) \div b)
c_rem(a, b) == IF a >= 0 THEN a % b ELSE -((-a) % b)

\* mutant of _timespec_add: the interval is added to tv_nsec without a carry
_timespec_add_nocarry(t, rel) ==
    [tv_sec |-> t.tv_sec, tv_nsec |-> t.tv_nsec + rel]

\* _timespec_add: tv_nsec = abstime.tv_nsec + reltime;
\* abstime.tv_nsec = tv_nsec % 1000000000; abstime.tv_sec += tv_nsec / 1000000000
_timespec_add(t, rel) ==
    [tv_sec |-> t.tv_sec + c_div(t.tv_nsec + rel, NsecPerSec),
     tv_nsec |-> c_rem(t.tv_nsec + rel, NsecPerSec)]

\* the tv_nsec values of the clock readings followed: the ends of the range,
\* its middle and the values around which each revalidation interval carries
ClockNsecs ==
    { 0, 1, NsecPerSec \div 2,
      NsecPerSec - mumule_revalidate_work_available_ns - 1,
      NsecPerSec - mumule_revalidate_work_available_ns,
      NsecPerSec - mumule_revalidate_queue_complete_ns - 1,
      NsecPerSec - mumule_revalidate_queue_complete_ns,
      NsecPerSec - 1 }

\* clock_gettime(CLOCK_REALTIME, &abstime): 0 <= tv_nsec < 1000000000
ClockReadings == [tv_sec : 0 .. MaxSec, tv_nsec : ClockNsecs]

\* the intervals passed to _timespec_add
Reltimes ==
    { -1, 0, 1,
      mumule_revalidate_queue_complete_ns,
      mumule_revalidate_work_available_ns,
      NsecPerSec - 1, NsecPerSec, NsecPerSec + 1 }

\* a pool whose threads are not started, and a first clock reading
TimeInit ==
    /\ InitPool(<< Op("sync", 0) >>, 1)
    /\ wakesLost = FALSE
    /\ abstime \in ClockReadings
    /\ deadline = timespec_zero
    /\ reltime = 0
    /\ tpc = "read"

\* the deadline becomes _timespec_add(abstime, rel)
AddInterval(rel) ==
    /\ tpc = "read"
    /\ reltime' = rel
    /\ deadline' = _timespec_add(abstime, rel)
    /\ tpc' = "armed"
    /\ UNCHANGED << pool, wpc, wlocals, owner, producers, calls, epoch, rets,
                    stopMark, wakesLost, handles, abstime >>

\* mule_thread: abstime = _timespec_add(abstime,
\* mumule_revalidate_work_available_ns)
WorkerDeadline == AddInterval(mumule_revalidate_work_available_ns)

\* mule_sync: abstime = _timespec_add(abstime,
\* mumule_revalidate_queue_complete_ns)
SyncDeadline == AddInterval(mumule_revalidate_queue_complete_ns)

\* _timespec_add called with any of the intervals
AnyDeadline == \E rel \in Reltimes : AddInterval(rel)

\* the next iteration of the loop: struct timespec abstime = { 0 };
\* clock_gettime(CLOCK_REALTIME, &abstime)
ClockRead ==
    /\ tpc = "armed"
    /\ abstime' \in ClockReadings
    /\ tpc' = "read"
    /\ UNCHANGED << pool, wpc, wlocals, owner, producers, calls, epoch, rets,
                    stopMark, wakesLost, handles, reltime, deadline >>

TimeNext ==
    \/ WorkerDeadline
    \/ SyncDeadline
    \/ AnyDeadline
    \/ ClockRead

TimeSpec == TimeInit /\ [][TimeNext]_vars

\* ------------------------------------------------------------ observations

\* the owner has returned from every call of its program
Done == ip > Len(prog)

\* the owner has just returned from call `name` and has not begun the next
Returned(name) == opc = "call" /\ ip > 1 /\ prog[ip - 1].op = name

\* the workers that have claimed index i and whose kernel has not returned
InFlight(i) == { w \in Workers : wpc[w] = "exec" /\ workitem_idx(wp[w]) = i }

\* the number of successful claims of index i since the last reset
Claims(i) == calls[i] + Cardinality(InFlight(i))

\* ------------------------------------------------------------ claims

\* C1: without reset, when mule_sync returns after submits totalling T items
\* on a started pool, every index in 1..T has had exactly one kernel
\* invocation, which has returned, and no index above T has been passed to
\* the kernel.
C1_ExactlyOnceAtSync ==
    (epoch = 0 /\ Returned("sync") /\ running) =>
        \A i \in Indices :
            /\ calls[i] = (IF i <= queued THEN 1 ELSE 0)
            /\ InFlight(i) = {}

\* C2: in every reachable state (reset is never concurrent with a submit in
\* these programs), processed <= processing <= queued, also between the three
\* counter stores of mule_reset.
C2_CountersOrdered == processed <= processing /\ processing <= queued

\* C3: without reset, the indices claimed so far are exactly 1..processing and
\* each was claimed exactly once: of the workers racing on the
\* compare-and-swap of one value of processing, one wins and no other claims.
C3_ClaimsAreOneToProcessing ==
    epoch = 0 =>
        \A i \in Indices : Claims(i) = (IF i <= processing THEN 1 ELSE 0)

\* two workers loaded the same value of processing; one has won the
\* compare-and-swap and the other has yet to try its own
C3_Witness ==
    /\ epoch = 0
    /\ \E w1, w2 \in Workers :
          /\ w1 # w2
          /\ wpc[w1] = "exec" /\ wpc[w2] = "cas"
          /\ wp[w1] = wp[w2]

C5_ProducersAddUp ==
    (Returned("sync") /\ Len(prog) = 4 /\ prog[2].op = "fork") =>
        /\ queued = NumProducers * pcount
        /\ processed = NumProducers * pcount

\* the index range (return - count, return] of the j-th mule_submit since the
\* last reset
RangeOf(j) == (rets[j][1] - rets[j][2] + 1) .. rets[j][1]

\* C6: mule_submit(count) returns queued as it is right after its own
\* addition: the ranges (return - count, return] of the submits are pairwise
\* disjoint and together cover exactly 1..queued.
C6_SubmitRangesPartition ==
    /\ \A j, k \in 1 .. Len(rets) : j # k => RangeOf(j) \cap RangeOf(k) = {}
    /\ UNION { RangeOf(j) : j \in 1 .. Len(rets) } = 1 .. queued

\* both producers have done their fetch-add before either has returned
C6_Witness ==
    /\ pcount > 0
    /\ \A pr \in Producers : ppc[pr] = "submit_bc"
    /\ Len(rets) = NumProducers

IsResetProgram == Len(prog) = 6 /\ prog[4].op = "reset"

\* C8: after submit(a), sync, reset, submit(b), sync on a started pool, the
\* kernel invocations since reset began storing are exactly one for each of
\* the indices 1..b, and queued = processing = processed = b.
C8_ResetThenExactlyB ==
    (IsResetProgram /\ Done) =>
        /\ \A i \in Indices : calls[i] = (IF i <= prog[5].n THEN 1 ELSE 0)
        /\ queued = prog[5].n
        /\ processing = prog[5].n
        /\ processed = prog[5].n

\* the owner is inside mule_sync (also as called by mule_reset)
InSync == opc \in { "sync_lock", "sync_loadq", "sync_loadp", "sync_waiting",
                    "sync_woken" }

\* C9: mule_sync returns only after loading processed >= queued in one pass
\* of its loop, and a call entered with processed = queued returns without
\* waiting on wake_dispatcher, also on a pool that was never started.
C9_SyncReturnsOnQuench ==
    /\ (Returned("sync") \/ opc = "reset_queued") => dpd >= dq
    /\ ((InSync \/ Returned("sync")) /\ dEntryQuenched) => ~dWaited

\* on a pool that was never started, mule_sync was entered with processed =
\* queued and has returned without waiting
C9_Witness ==
    /\ Returned("sync") /\ dEntryQuenched /\ ~dWaited
    /\ ~running /\ stopMark = << >> /\ ip = 2

\* the program is submit(T), start, sync, stop, destroy
IsEndToEnd == Len(prog) = 5 /\ prog[1].op = "submit" /\ prog[5].op = "destroy"

\* C10: init(n), submit(T), start, sync, stop, destroy ends with the kernel
\* invoked exactly T times, once for each index 1..T, and threads_running 0.
C10_EndToEnd ==
    (IsEndToEnd /\ Done) =>
        /\ \A i \in Indices : calls[i] = (IF i <= prog[1].n THEN 1 ELSE 0)
        /\ threads_running = 0

\* the end-to-end program has finished with two workers and the largest T
C10_Witness ==
    /\ IsEndToEnd /\ Done
    /\ num_threads = MaxThreads /\ prog[1].n = MaxCount
    /\ destroyed = 1

\* the threads of descriptor w that were created and not yet joined
LiveThreads(w) == created[w] - joined[w]

\* the owner's step is a mule_start that returns early
StartReturnsEarly ==
    opc = "call" /\ CurOp = "start" /\ running /\ ip' = ip + 1

\* C11: mule_start on a running pool spawns no thread and changes no state;
\* whatever the sequence of mule_start calls without a mule_stop between
\* them, each descriptor 0..num_threads-1 has exactly one thread and no other
\* descriptor has any.
C11_StartIsIdempotent ==
    /\ [](\A w \in Workers :
             /\ LiveThreads(w) \in {0, 1}
             /\ running => LiveThreads(w) = (IF w < num_threads THEN 1 ELSE 0))
    /\ [][StartReturnsEarly =>
             UNCHANGED << pool, wpc, wlocals, created, joined, descrTop >>]_vars

\* the second of two mule_start calls in a row has returned on a running pool
C11_Witness ==
    /\ Returned("start") /\ ip > 2 /\ prog[ip - 2].op = "start"
    /\ running /\ num_threads = MaxThreads
    /\ \A w \in Workers : created[w] = 1

\* the owner's step is a mule_stop (on its own or inside mule_destroy) that
\* returns early
StopReturnsEarly ==
    /\ opc = "call" /\ ~running
    /\ \/ CurOp = "stop" /\ ip' = ip + 1
       \/ CurOp = "destroy" /\ opc' = "destroy_free"

\* C12: mule_stop on a pool that is not running returns without broadcasting
\* or joining; no thread handle is joined more often than it was created, and
\* when mule_stop has returned every created thread has been joined exactly
\* once.
C12_StopIsIdempotent ==
    /\ [](\A w \in Workers : joined[w] <= created[w])
    /\ [](Returned("stop") => \A w \in Workers : joined[w] = created[w])
    /\ [][StopReturnsEarly =>
             UNCHANGED << pool, wpc, wlocals, created, joined, descrTop >>]_vars

\* the second of two mule_stop calls in a row has returned
C12_Witness ==
    /\ Returned("stop") /\ ip > 2 /\ prog[ip - 2].op = "stop"
    /\ num_threads = MaxThreads
    /\ \A w \in Workers : created[w] = 1 /\ joined[w] = 1

\* C13: when mule_stop returns every worker has left mule_thread:
\* threads_running is 0, no kernel invocation is in flight or uncounted, and
\* processed equals processing.
C13_StopPostconditions ==
    Returned("stop") =>
        /\ threads_running = 0
        /\ \A w \in Workers : wpc[w] = "none"
        /\ processed = processing

\* C14: a pool whose num_threads exceeds mumule_max_threads is rejected by
\* mule_init, so mule_start never writes a thread descriptor at an index of
\* mumule_max_threads or above (the descriptors written are
\* threads[0 .. descrTop-1]).
C14_OverMaxRejected == descrTop <= mumule_max_threads

\* C15: a second mule_destroy is a harmless no-op: the mutex and the two
\* condition variables are destroyed once over the life of the pool, and once
\* they are destroyed no call is inside an operation on them.
C15_DestroyOnce ==
    /\ destroyed <= 1
    /\ destroyed > 0 => opc = "call"

\* C16: every kernel invocation is for an item index between 1 and the value
\* queued has at the successful compare-and-swap that claims it, also when
\* the worker's own copy of queued is stale.
C16_ClaimWithinQueued ==
    [][processing' > processing =>
          (1 <= processing' /\ processing' <= queued)]_vars

\* the owner's first three calls are submit(T), start, sync
IsSubmitStartSync ==
    /\ Len(prog) >= 3
    /\ prog[1].op = "submit" /\ prog[2].op = "start" /\ prog[3].op = "sync"

\* the owner's first three calls are start, submit(T), sync
IsStartSubmitSync ==
    /\ Len(prog) >= 3
    /\ prog[1].op = "start" /\ prog[2].op = "submit" /\ prog[3].op = "sync"

\* C17: whether mule_start comes before or after mule_submit(T), when the
\* mule_sync that follows has returned each index 1..T has been executed
\* exactly once and no other index has.
C17_StartSubmitOrder ==
    (ip = 4 /\ Returned("sync") /\ (IsSubmitStartSync \/ IsStartSubmitSync)) =>
        \A i \in Indices :
            /\ calls[i] = (IF i <= queued THEN 1 ELSE 0)
            /\ InFlight(i) = {}

\* the program is submit(a), start, stop, submit(b), start, submit(c), sync
IsRestartProgram == Len(prog) = 7 /\ prog[3].op = "stop" /\ prog[5].op = "start"

\* C18: after mule_stop has returned, a second mule_start starts num_threads
\* new workers on the existing counters, and when the mule_sync that follows
\* has returned every item submitted before, between or after the stop and
\* the restart has been executed exactly once.
C18_RestartResumes ==
    (IsRestartProgram /\ Done) =>
        /\ \A w \in Workers :
              /\ created[w] = (IF w < num_threads THEN 2 ELSE 0)
              /\ joined[w] = (IF w < num_threads THEN 1 ELSE 0)
        /\ queued = prog[1].n + prog[4].n + prog[6].n
        /\ \A i \in Indices :
              /\ calls[i] = (IF i <= queued THEN 1 ELSE 0)
              /\ InFlight(i) = {}

\* worker w's step is its fetch-add on processed
CountStep(w) == wpc[w] = "count" /\ wpc'[w] # "count"

ResetStore ==
    /\ opc \in {"reset_queued", "reset_processing", "reset_processed"}
    /\ opc' # opc

\* the step is the fetch-add of a mule_submit, by the owner or a producer
SubmitAdds ==
    \/ /\ opc = "call" /\ CurOp = "submit" /\ opc' = "submit_bc"
       /\ queued' = queued + CurN
    \/ \E pr \in Producers :
          /\ ppc[pr] = "submit" /\ ppc'[pr] = "submit_bc"
          /\ queued' = queued + pcount

\* the step is a successful compare-and-swap of a worker
ClaimStep ==
    \E w \in Workers :
        /\ wpc[w] = "cas" /\ wpc'[w] = "exec"
        /\ wp[w] = processing /\ processing' = processing + 1

\* the kernel invocations that have returned since the last reset
RECURSIVE CallsUpTo(_)
CallsUpTo(i) == IF i = 0 THEN 0 ELSE calls[i] + CallsUpTo(i - 1)

\* the workers whose kernel has returned and is not yet counted
Uncounted == { w \in Workers : wpc[w] = "count" }

\* C20: apart from mule_reset's stores each counter only grows and only by
\* its own operation: queued by the count of a mule_submit, processing by 1
\* on a worker's successful compare-and-swap, processed by 1 on a worker's
\* fetch-add; and before any reset processed is the number of kernel
\* invocations that have returned and been counted.
C20_CountersGrowByOwnOps ==
    /\ [][~ResetStore =>
             /\ queued' # queued => SubmitAdds
             /\ processing' # processing => ClaimStep
             /\ processed' # processed =>
                   /\ processed' = processed + 1
                   /\ \E w \in Workers : CountStep(w)
             /\ queued' >= queued
             /\ processing' >= processing
             /\ processed' >= processed]_vars
    /\ [](epoch = 0 =>
             processed + Cardinality(Uncounted) = CallsUpTo(MaxIdx))

\* two workers have each claimed, executed and counted an item of a two-item
\* submit made by concurrent producers
C20_Witness ==
    /\ epoch = 0
    /\ queued = 2 /\ processing = 2 /\ processed = 2
    /\ calls[1] = 1 /\ calls[2] = 1
    /\ \A pr \in Producers : ppc[pr] = "done"

\* worker w's step is a compare-and-swap attempt
CasStep(w) == wpc[w] = "cas" /\ wpc'[w] # "cas"

\* C21: a compare-and-swap attempt either succeeds (processing goes up by one
\* and the worker goes on to the kernel) or leaves queued, processing and
\* processed unchanged, invokes no kernel, emits no signal and sends the
\* worker back to the top of its loop; and a worker reaches a compare-and-swap
\* only from its load of processing, which it reaches only from its load of
\* queued.
C21_FailedCasHasNoEffect ==
    [][\A w \in Workers :
          /\ CasStep(w) =>
                \/ /\ wp[w] = processing
                   /\ processing' = processing + 1
                   /\ wpc'[w] = "exec"
                \/ /\ UNCHANGED << counters, calls, opc >>
                   /\ wpc'[w] = "loadq"
          /\ (wpc'[w] = "cas" /\ wpc[w] # "cas") =>
                (wpc[w] = "loadp" /\ wp'[w] = processing)
          /\ (wpc'[w] = "loadp" /\ wpc[w] # "loadp") =>
                (wpc[w] = "loadq" /\ wq'[w] = queued)]_vars

\* a worker is at its compare-and-swap after another worker has claimed the
\* value it loaded: its attempt fails
C21_Witness ==
    \E w1, w2 \in Workers :
        /\ w1 # w2
        /\ wpc[w1] = "cas" /\ wp[w1] # processing
        /\ wpc[w2] = "count" /\ wp[w2] = wp[w1]

\* the workers that have won a claim and not yet done the completion fetch-add
Claimers == { w \in Workers : wpc[w] \in {"exec", "count"} }

\* C22: without reset, processing - processed is the number of workers that
\* have won a claim and not yet done the completion fetch-add: it lies
\* between 0 and num_threads, and the claims in flight are on distinct
\* indices.
C22_InFlightIsDifference ==
    epoch = 0 =>
        /\ processing - processed = Cardinality(Claimers)
        /\ 0 <= processing - processed
        /\ processing - processed <= num_threads
        /\ \A w1, w2 \in Claimers : w1 # w2 => wp[w1] # wp[w2]

\* every worker of a two-thread pool is inside the kernel at once
C22_Witness ==
    /\ epoch = 0 /\ num_threads = MaxThreads
    /\ \A w \in Workers : wpc[w] = "exec"
    /\ processing - processed = MaxThreads

\* worker w's step begins a wait on wake_worker
WaitBegins(w) == wpc'[w] = "waiting" /\ wpc[w] # "waiting"

\* C23: a worker begins a wait on wake_worker only while running is set and
\* while it holds the mutex, so none begins a wait after mule_stop has
\* cleared running; and with worker waits that never time out every
\* mule_stop returns under fair scheduling.
C23_StopWakesEveryWaiter ==
    /\ [][\A w \in Workers :
             WaitBegins(w) => (running /\ mutex = "worker")]_vars
    /\ \A k \in 1 .. MaxCalls :
          (ip = k /\ CurOp = "stop") ~> (ip > k)

\* mule_stop has cleared running and is about to broadcast while every worker
\* of a two-thread pool is waiting on wake_worker
C23_Witness ==
    /\ opc = "stop_bc" /\ ~running
    /\ num_threads = MaxThreads
    /\ \A w \in Workers : wpc[w] = "waiting"

\* worker w's kernel call returns in this step
KernelStep(w) == wpc[w] = "exec" /\ wpc'[w] # "exec"

\* the positions of the owner at which it holds the mutex
OwnerHoldsMutex ==
    opc \in { "start_locked", "sync_loadq", "sync_loadp", "stop_locked" }

\* C24: the mutex is held by a worker exactly while one worker is between
\* its mtx_lock and its wait or exit in the queue-empty branch; the
\* compare-and-swap, the kernel call, the completion fetch-add and every
\* submit leave the mutex as it is and are possible whoever holds it; the
\* owner holds it only inside mule_start, mule_sync and mule_stop and not
\* while it waits on wake_dispatcher (as long as the owner's behaviour is
\* defined).
C24_MutexOnlyWhenParking ==
    /\ [](/\ mutex = "worker" <=> (\E w \in Workers : wpc[w] = "locked")
          /\ \A w1, w2 \in Workers :
                (wpc[w1] = "locked" /\ wpc[w2] = "locked") => w1 = w2
          /\ opc # "undefined" => (mutex = "dispatcher" <=> OwnerHoldsMutex)
          /\ \A w \in Workers :
                /\ (/\ wpc[w] = "cas" /\ cas_matches(processing, wp[w])
                    /\ processing < ProcessingCap(prog))
                       => ENABLED WorkerCasSuccess(w)
                /\ wpc[w] = "exec" => ENABLED WorkerKernel(w)
                /\ wpc[w] = "count" => ENABLED WorkerCount(w))
    /\ [][((\E w \in Workers : CasStep(w) \/ KernelStep(w) \/ CountStep(w))
            \/ SubmitAdds) => mutex' = mutex]_vars

\* mule_sync holds the mutex while one worker is inside the kernel with a
\* claimed item and the other performs its completion fetch-add
C24_Witness ==
    /\ InSync /\ mutex = "dispatcher"
    /\ \E w \in Workers : wpc[w] = "exec"
    /\ \E w \in Workers : wpc[w] = "count"

\* timespec a is strictly later than timespec b
Later(a, b) ==
    \/ a.tv_sec > b.tv_sec
    \/ a.tv_sec = b.tv_sec /\ a.tv_nsec > b.tv_nsec

\* C25: for a clock reading with 0 <= tv_nsec < 1000000000 and an interval
\* reltime >= 0, _timespec_add returns a timespec with
\* 0 <= tv_nsec < 1000000000 whose total in nanoseconds is the reading's
\* total plus reltime; with either revalidation interval the deadline is
\* strictly later than the reading.
C25_DeadlineNormalized ==
    (tpc = "armed" /\ reltime >= 0) =>
        /\ deadline = _timespec_add(abstime, reltime)
        /\ 0 <= deadline.tv_nsec /\ deadline.tv_nsec < NsecPerSec
        /\ (deadline.tv_sec - abstime.tv_sec) * NsecPerSec
              + (deadline.tv_nsec - abstime.tv_nsec) = reltime
        /\ reltime > 0 => Later(deadline, abstime)
        /\ reltime \in { mumule_revalidate_work_available_ns,
                         mumule_revalidate_queue_complete_ns }
              => Later(deadline, abstime)

\* the dispatcher's interval added to a reading in the last millisecond of a
\* second: the sum carries into tv_sec
C25_Witness ==
    /\ tpc = "armed"
    /\ reltime = mumule_revalidate_queue_complete_ns
    /\ abstime.tv_nsec + reltime >= NsecPerSec
    /\ deadline.tv_sec = abstime.tv_sec + 1
    /\ deadline.tv_nsec < abstime.tv_nsec

====
